---- MODULE Spec2Model ----
(***************************************************************************)
(* The two report scripts, rs2_dr_dashboard.py ("rs2") and                 *)
(* scan_records_dashboard.py ("scan"), as one batch run:                   *)
(*     load_data -> summarize -> render -> write.                          *)
(*                                                                         *)
(* A text cell is a sequence of one-character strings.  A missing cell is  *)
(* the one-element sequence NaN, the null that normalisation assigns is    *)
(* NA; neither is a text.  A numeric cell is <<"num", n>>.  csv.rows holds *)
(* the cells as pandas.read_csv returns them, so the input sets hold no    *)
(* text that read_csv itself turns into NaN ("", "nan", "NA", ...).        *)
(***************************************************************************)
EXTENDS Integers, Sequences, FiniteSets, TLC

VARIABLES variant, csv, pc, df, summary, html, outFile, trace

vars == <<variant, csv, pc, df, summary, html, outFile, trace>>

(***************************************************************************)
(* Values and text operations of pandas / Python used by both scripts.     *)
(***************************************************************************)
NaN == <<"NaN">>

NA == <<"<NA>">>

NaT == <<"NaT">>

\* pd.isna / dropna
IsNa(x) == x = NaN \/ x = NA \/ x = NaT

Num(n) == <<"num", n>>

IsNum(x) == Len(x) = 2 /\ x[1] = "num"

IsText(x) == ~IsNa(x) /\ ~IsNum(x)

Whitespace == {" ", "\t"}

LowerLetters == <<"a", "b", "c", "d", "e", "f", "i", "l", "n", "o", "r", "s", "t", "x">>

UpperLetters == <<"A", "B", "C", "D", "E", "F", "I", "L", "N", "O", "R", "S", "T", "X">>

Range(s) == {s[i] : i \in 1..Len(s)}

AsTypeStrShortNull(x) ==
  IF x = NaN THEN <<"n", "a", "n">>
  ELSE IF x = NA THEN <<"N", "A">>
  ELSE IF x = NaT THEN <<"N", "a", "T">>
  ELSE IF IsNum(x) THEN <<ToString(x[2])>>
  ELSE x

\* Series.astype(str) on one cell: a missing cell becomes the text "nan".
AsTypeStr(x) ==
  IF x = NaN THEN <<"n", "a", "n">>
  ELSE IF x = NA THEN <<"<", "N", "A", ">">>
  ELSE IF x = NaT THEN <<"N", "a", "T">>
  ELSE IF IsNum(x) THEN <<ToString(x[2])>>
  ELSE x

RECURSIVE LStrip(_)
LStrip(s) ==
  IF s # <<>> /\ Head(s) \in Whitespace THEN LStrip(Tail(s)) ELSE s

RECURSIVE RStrip(_)
RStrip(s) ==
  IF s # <<>> /\ s[Len(s)] \in Whitespace THEN RStrip(SubSeq(s, 1, Len(s) - 1)) ELSE s

\* str.strip()
StrStrip(s) == RStrip(LStrip(s))

UpperChar(c) ==
  IF \E i \in 1..Len(LowerLetters) : LowerLetters[i] = c
  THEN UpperLetters[CHOOSE i \in 1..Len(LowerLetters) : LowerLetters[i] = c]
  ELSE c

\* str.upper()
StrUpper(s) == [i \in 1..Len(s) |-> UpperChar(s[i])]

PrefixMatchState(s) == Len(s) >= 2 /\ s[1] \in Range(UpperLetters) /\ s[2] \in Range(UpperLetters)

\* ~str.fullmatch(r"[A-Z]{2}") picks the rows that are set to NA.
FullMatchState(s) == Len(s) = 2 /\ s[1] \in Range(UpperLetters) /\ s[2] \in Range(UpperLetters)

\* df["State"].astype(str).str.strip().str.upper(), then NA unless [A-Z]{2}.
NormalizeState(x) ==
  LET s == StrUpper(StrStrip(AsTypeStr(x)))
  IN IF FullMatchState(s) THEN s ELSE NA

\* pd.to_datetime(errors="coerce"): a timestamp text is kept, anything else is NaT.
ToDatetime(x) == IF IsNum(x) THEN x ELSE NaT

\* pd.to_numeric(errors="coerce")
ToNumeric(x) == IF IsNum(x) THEN x ELSE NaN

(***************************************************************************)
(* The input: the columns the file has and its rows.                       *)
(***************************************************************************)
AllColumns == {"AccountId", "Email", "VIN", "State", "CreatedDateTimeUTC", "Year", "Mileage",
               "TotalAbsCodes", "TotalSrsCodes", "MaintenancePartsCount", "PredictedPartsCount",
               "UsbProductId", "Make", "Model", "ABS Part Name", "SRS Part Name", "MIL DTC",
               "MIL Part Name"}

BlankRow == [c \in AllColumns |-> NaN]

\* The columns each function reads by name (df["..."]): an absent one is a KeyError.
LoadColumns(v) ==
  IF v = "scan"
  THEN {"CreatedDateTimeUTC", "AccountId", "Email", "VIN", "State"}
  ELSE {"CreatedDateTimeUTC", "State", "Year", "Mileage", "TotalAbsCodes", "TotalSrsCodes",
        "AccountId", "Make", "Model"}

SummarizeColumns(v) ==
  IF v = "scan"
  THEN {"AccountKey", "VIN", "State", "CreatedDateTimeUTC"}
  ELSE {"VehicleAge", "Mileage", "TotalAbsCodes", "TotalSrsCodes", "MaintenancePartsCount",
        "PredictedPartsCount", "VIN", "UserId", "Vehicle", "UsbProductId", "ABS Part Name",
        "SRS Part Name", "MIL DTC", "MIL Part Name", "State", "CreatedDateTimeUTC"}

\* The columns load_data adds to the frame.
DerivedColumns(v) ==
  IF v = "scan" THEN {"AccountKey"} ELSE {"CreatedDateTimePT", "UserId", "VehicleAge", "Vehicle"}

(***************************************************************************)
(* load_data                                                               *)
(***************************************************************************)
\* scan: df["AccountId"].where(df["AccountId"].ne(""), df["Email"])
AccountKey(accountId, email) == IF accountId # <<>> THEN accountId ELSE email

ScanLoadRow(r) ==
  LET accountId == StrStrip(AsTypeStr(r.AccountId))
      email == StrStrip(AsTypeStr(r.Email))
  IN [AccountKey |-> AccountKey(accountId, email)] @@
     [r EXCEPT !.CreatedDateTimeUTC = ToDatetime(@),
               !.AccountId = accountId,
               !.Email = email,
               !.VIN = StrStrip(AsTypeStr(@)),
               !.State = NormalizeState(@)]

\* rs2: the trimmed AccountId, NA when it is "" or "nan".
UserId(accountId) ==
  LET u == StrStrip(AsTypeStr(accountId))
  IN IF u \in {<<>>, <<"n", "a", "n">>} THEN NA ELSE u

ReferenceYear == 2026

MinYear == 1980

\* 2026 - Year, NA outside 1980..2026; NaN stays NaN.
VehicleAge(year) ==
  IF ~IsNum(year) THEN NaN
  ELSE IF year[2] < MinYear \/ year[2] > ReferenceYear THEN NA
  ELSE Num(ReferenceYear - year[2])

VehicleLabelKeepingBlank(row) ==
  IF IsNa(row.Year) \/ IsNa(row.Make) \/ IsNa(row.Model) THEN NA
  ELSE <<ToString(row.Year[2]), " ">> \o StrStrip(AsTypeStr(row.Make)) \o <<" ">>
         \o StrStrip(AsTypeStr(row.Model))

vehicle_label(row) ==
  IF IsNa(row.Year) \/ IsNa(row.Make) \/ IsNa(row.Model) THEN NA
  ELSE LET make == StrStrip(AsTypeStr(row.Make))
           model == StrStrip(AsTypeStr(row.Model))
       IN IF make = <<>> \/ model = <<>> THEN NA
          ELSE <<ToString(row.Year[2]), " ">> \o make \o <<" ">> \o model

Rs2LoadRow(r) ==
  LET n == [r EXCEPT !.CreatedDateTimeUTC = ToDatetime(@),
                     !.State = NormalizeState(@),
                     !.Year = ToNumeric(@),
                     !.Mileage = ToNumeric(@),
                     !.TotalAbsCodes = ToNumeric(@),
                     !.TotalSrsCodes = ToNumeric(@)]
  IN [CreatedDateTimePT |-> n.CreatedDateTimeUTC,
      UserId |-> UserId(r.AccountId),
      VehicleAge |-> VehicleAge(n.Year),
      Vehicle |-> vehicle_label(n)] @@ n

load_data(v, rows) ==
  [i \in 1..Len(rows) |-> IF v = "scan" THEN ScanLoadRow(rows[i]) ELSE Rs2LoadRow(rows[i])]

(***************************************************************************)
(* Series and frame operations.  A table is a sequence of rows [key, n].   *)
(***************************************************************************)
Col(frame, c) == [i \in 1..Len(frame) |-> frame[i][c]]

\* Series.dropna()
DropNa(cells) == SelectSeq(cells, LAMBDA x : ~IsNa(x))

DropNaRowsKeepsAll(frame, cols) == frame

\* DataFrame.dropna(subset=cols)
DropNaRows(frame, cols) == SelectSeq(frame, LAMBDA r : \A c \in cols : ~IsNa(r[c]))

Min(a, b) == IF a <= b THEN a ELSE b

HeadNOffByOne(tbl, n) == SubSeq(tbl, 1, Min(n + 1, Len(tbl)))

\* .head(n)
HeadN(tbl, n) == SubSeq(tbl, 1, Min(n, Len(tbl)))

Keys(tbl) == {tbl[i].key : i \in 1..Len(tbl)}

\* The count of key k in a table, 0 when absent (reindex(..., fill_value=0)).
CountOf(tbl, k) ==
  IF \E i \in 1..Len(tbl) : tbl[i].key = k
  THEN tbl[CHOOSE i \in 1..Len(tbl) : tbl[i].key = k].n
  ELSE 0

\* Hash-table counting (value_counts before its sort, Counter): one row per
\* distinct key, in order of first appearance.
RECURSIVE CountTable(_)
CountTable(keys) ==
  IF keys = <<>> THEN <<>>
  ELSE LET rest == CountTable(SubSeq(keys, 1, Len(keys) - 1))
           k == keys[Len(keys)]
       IN IF \E i \in 1..Len(rest) : rest[i].key = k
          THEN [rest EXCEPT ![CHOOSE i \in 1..Len(rest) : rest[i].key = k].n = @ + 1]
          ELSE Append(rest, [key |-> k, n |-> 1])

\* Code-point order of the characters the inputs use.
CodeOrder ==
  <<"\t", " ", ";", "0", "1", "2", "3", "<", ">", "A", "B", "C", "D", "E", "F", "I", "L", "N",
    "O", "R", "S", "T", "X", "a", "b", "c", "d", "e", "f", "i", "l", "n", "o", "p", "q", "r",
    "s", "t", "v", "w", "x">>

CharRank(c) ==
  IF \E i \in 1..Len(CodeOrder) : CodeOrder[i] = c
  THEN CHOOSE i \in 1..Len(CodeOrder) : CodeOrder[i] = c
  ELSE 0

RECURSIVE StrLess(_, _)
StrLess(a, b) ==
  IF b = <<>> THEN FALSE
  ELSE IF a = <<>> THEN TRUE
  ELSE IF Head(a) = Head(b) THEN StrLess(Tail(a), Tail(b))
  ELSE CharRank(Head(a)) < CharRank(Head(b))

\* The sequence tbl reordered so that Before(i, j) puts row i ahead of row j.
SortedBy(tbl, Before(_, _)) ==
  [k \in 1..Len(tbl) |->
     tbl[CHOOSE i \in 1..Len(tbl) :
           Cardinality({j \in 1..Len(tbl) : Before(j, i)}) = k - 1]]

GroupBySizeKeepingNull(keys) ==
  LET t == CountTable(keys)
  IN SortedBy(t, LAMBDA i, j : StrLess(t[i].key, t[j].key))

\* groupby(key).size(): one row per distinct non-null key, in ascending key order.
GroupBySize(keys) ==
  LET t == CountTable(DropNa(keys))
  IN SortedBy(t, LAMBDA i, j : StrLess(t[i].key, t[j].key))

\* The orders in which an unstable sort may leave rows of equal count: rank[p]
\* decides among the rows at positions p, p + 3, ... before the sort.
TieRanks == {r \in [1..3 -> 1..3] : \A a, b \in 1..3 : a # b => r[a] # r[b]}

TieBefore(rank, i, j) ==
  LET ri == rank[((i - 1) % 3) + 1]
      rj == rank[((j - 1) % 3) + 1]
  IN ri < rj \/ (ri = rj /\ i < j)

\* Series.sort_values(ascending=False), default kind="quicksort": descending
\* counts; the order among equal counts is the sort's (rank).
SortValuesDesc(tbl, rank) ==
  SortedBy(tbl, LAMBDA i, j : tbl[i].n > tbl[j].n \/ (tbl[i].n = tbl[j].n /\ TieBefore(rank, i, j)))

\* Series.value_counts(): count, then sort_values(ascending=False).
ValueCounts(keys, rank) == SortValuesDesc(CountTable(keys), rank)

MostCommonLastFirst(counter, n) ==
  HeadN(SortedBy(counter, LAMBDA i, j : counter[i].n > counter[j].n
                                        \/ (counter[i].n = counter[j].n /\ i > j)), n)

\* Counter.most_common(n): a stable descending sort, the first n rows.
MostCommon(counter, n) ==
  HeadN(SortedBy(counter, LAMBDA i, j : counter[i].n > counter[j].n
                                        \/ (counter[i].n = counter[j].n /\ i < j)), n)

SafeRatioUnguarded(a, b) == [num |-> a, den |-> b]

\* Python's a / b if b else 0, as the fraction num/den.
SafeRatio(a, b) == IF b # 0 THEN [num |-> a, den |-> b] ELSE [num |-> 0, den |-> 1]

\* Series.div / "/" on one pair of values: den = 0 stands for inf or NaN.
Div(a, b) == [num |-> a, den |-> b]

RECURSIVE SumNums(_)
SumNums(cells) == IF cells = <<>> THEN 0 ELSE Head(cells)[2] + SumNums(Tail(cells))

\* Series.sum() of a column read_csv left as text is a TypeError or, through
\* int(), a ValueError; astype(int) of a text is a ValueError.
HasText(cells) == \E i \in 1..Len(cells) : IsText(cells[i])

(***************************************************************************)
(* rs2_dr_dashboard.py: explode_parts, top_mil_dtc, summarize              *)
(***************************************************************************)
RECURSIVE Split(_, _)
Split(s, sep) ==
  IF \A i \in 1..Len(s) : s[i] # sep THEN <<s>>
  ELSE LET i == CHOOSE k \in 1..Len(s) : s[k] = sep /\ \A m \in 1..(k - 1) : s[m] # sep
       IN <<SubSeq(s, 1, i - 1)>> \o Split(SubSeq(s, i + 1, Len(s)), sep)

RECURSIVE Flatten(_)
Flatten(ss) == IF ss = <<>> THEN <<>> ELSE Head(ss) \o Flatten(Tail(ss))

PartNamesKeepingEmpty(raw) ==
  LET pieces == Split(AsTypeStr(raw), ";")
  IN [i \in 1..Len(pieces) |-> StrStrip(pieces[i])]

\* The non-empty trimmed pieces of one cell, in order.
PartNames(raw) ==
  LET pieces == Split(AsTypeStr(raw), ";")
  IN SelectSeq([i \in 1..Len(pieces) |-> StrStrip(pieces[i])], LAMBDA name : name # <<>>)

explode_parts(series) ==
  LET cells == DropNa(series)
  IN CountTable(Flatten([i \in 1..Len(cells) |-> PartNames(cells[i])]))

TopPartsLimit == 3

top_mil_dtc(frame, limit, rank) ==
  LET present == DropNa(Col(frame, "MIL DTC"))
      dtc_counts == ValueCounts([i \in 1..Len(present) |-> StrStrip(AsTypeStr(present[i]))], rank)
      top == HeadN(dtc_counts, limit)
      parts_counter(dtc) ==
        explode_parts(Col(SelectSeq(frame, LAMBDA r : StrStrip(AsTypeStr(r["MIL DTC"])) = dtc),
                          "MIL Part Name"))
  IN [i \in 1..Len(top) |->
        [key |-> top[i].key, n |-> top[i].n,
         parts |-> MostCommon(parts_counter(top[i].key), TopPartsLimit)]]

SafeMeanCountingNulls(series) ==
  IF DropNa(series) # <<>> THEN [num |-> SumNums(DropNa(series)), den |-> Len(series)]
  ELSE [num |-> 0, den |-> 1]

SafeMeanUnguarded(series) ==
  [num |-> SumNums(DropNa(series)), den |-> Len(DropNa(series))]

safe_mean(series) ==
  LET cleaned == DropNa(series)
  IN IF cleaned # <<>> THEN [num |-> SumNums(cleaned), den |-> Len(cleaned)]
     ELSE [num |-> 0, den |-> 1]

MinutesPerHour == 60

WindowHoursOffByOne == 23 + 1

WindowHours == 23

HourFloor(t) == (t \div MinutesPerHour) * MinutesPerHour

\* resample("h").size(): one row per hour from the earliest to the latest
\* bucket, then the rows with Hour >= max - 23 h.
Hourly(frame) ==
  LET ts == DropNa(Col(frame, "CreatedDateTimeUTC"))
  IN IF ts = <<>> THEN <<>>
     ELSE LET first == CHOOSE b \in {HourFloor(ts[i][2]) : i \in 1..Len(ts)} :
                         \A i \in 1..Len(ts) : b <= HourFloor(ts[i][2])
              last == CHOOSE b \in {HourFloor(ts[i][2]) : i \in 1..Len(ts)} :
                        \A i \in 1..Len(ts) : b >= HourFloor(ts[i][2])
              hourly == [k \in 1..((last - first) \div MinutesPerHour + 1) |->
                           LET h == first + (k - 1) * MinutesPerHour
                           IN [Hour |-> h,
                               Scans |-> Cardinality({i \in 1..Len(ts) : HourFloor(ts[i][2]) = h})]]
              max_time == hourly[Len(hourly)].Hour
              window_start == max_time - WindowHours * MinutesPerHour
          IN SelectSeq(hourly, LAMBDA r : r.Hour >= window_start)

TopVehiclesLimit == 10

TopUsbLimit == 5

PartsLimit == 10

MilDtcLimit == 10

TopStatesLimit == 10

IsRepeatPairOffByOne(cnt) == cnt > 2

\* repeat_pairs["cnt"] >= 2
IsRepeatPair(cnt) == cnt >= 2

\* The statements of summarize that raise on a malformed cell.
Rs2SummarizeRaises(frame) ==
  \/ HasText(Col(frame, "MaintenancePartsCount"))
  \/ HasText(Col(frame, "PredictedPartsCount"))
  \/ HasText(DropNa(Col(frame, "UsbProductId")))

Rs2Summarize(frame, rank) ==
  LET user_counts == CountTable(DropNa(Col(frame, "UserId")))
      total_scanned_users == Len(user_counts)
      paired == DropNaRows(frame, {"UserId", "VIN"})
      repeat_pairs == CountTable([i \in 1..Len(paired) |-> <<paired[i]["UserId"], paired[i]["VIN"]>>])
      repeat_accounts ==
        {repeat_pairs[i].key[1] : i \in {j \in 1..Len(repeat_pairs) : IsRepeatPair(repeat_pairs[j].n)}}
      repeat_user_count == Cardinality(repeat_accounts)
      state_counts == SortValuesDesc(GroupBySize(Col(frame, "State")), rank)
      repeaters == DropNaRows(SelectSeq(frame, LAMBDA r : r["UserId"] \in repeat_accounts), {"State"})
      by_state == GroupBySize(Col(repeaters, "State"))
  IN [total_scans |-> Len(frame),
      total_scanned_users |-> total_scanned_users,
      avg_age |-> safe_mean(Col(frame, "VehicleAge")),
      avg_mileage |-> safe_mean(Col(frame, "Mileage")),
      avg_abs_codes |-> safe_mean(Col(frame, "TotalAbsCodes")),
      avg_srs_codes |-> safe_mean(Col(frame, "TotalSrsCodes")),
      maintenance_parts_total |-> SumNums(DropNa(Col(frame, "MaintenancePartsCount"))),
      predicted_parts_total |-> SumNums(DropNa(Col(frame, "PredictedPartsCount"))),
      unique_vins |-> Len(CountTable(DropNa(Col(frame, "VIN")))),
      repeat_accounts |-> repeat_accounts,
      repeat_user_count |-> repeat_user_count,
      repeat_user_share |-> SafeRatio(repeat_user_count, total_scanned_users),
      top_vehicles |-> HeadN(ValueCounts(DropNa(Col(frame, "Vehicle")), rank), TopVehiclesLimit),
      top_usb |-> HeadN(ValueCounts(DropNa(Col(frame, "UsbProductId")), rank), TopUsbLimit),
      abs_parts |-> MostCommon(explode_parts(Col(frame, "ABS Part Name")), PartsLimit),
      srs_parts |-> MostCommon(explode_parts(Col(frame, "SRS Part Name")), PartsLimit),
      mil_dtc |-> top_mil_dtc(frame, MilDtcLimit, rank),
      scans_by_state |-> state_counts,
      top_states |-> HeadN(state_counts, TopStatesLimit),
      hourly |-> Hourly(frame),
      repeat_users_by_state |->
        [i \in 1..Len(by_state) |->
           [key |-> by_state[i].key,
            n |-> Cardinality({r["UserId"] : r \in {repeaters[k] : k \in {m \in 1..Len(repeaters) :
                                                       repeaters[m]["State"] = by_state[i].key}}})]]]

(***************************************************************************)
(* scan_records_dashboard.py: summarize, build_figures                     *)
(***************************************************************************)
MinutesPerDay == 1440

DayFloor(t) == (t \div MinutesPerDay) * MinutesPerDay

\* set_index("CreatedDateTimeUTC").resample("D").size()
Daily(frame) ==
  LET ts == DropNa(Col(frame, "CreatedDateTimeUTC"))
  IN IF ts = <<>> THEN <<>>
     ELSE LET first == CHOOSE b \in {DayFloor(ts[i][2]) : i \in 1..Len(ts)} :
                         \A i \in 1..Len(ts) : b <= DayFloor(ts[i][2])
              last == CHOOSE b \in {DayFloor(ts[i][2]) : i \in 1..Len(ts)} :
                        \A i \in 1..Len(ts) : b >= DayFloor(ts[i][2])
          IN [k \in 1..((last - first) \div MinutesPerDay + 1) |->
                LET d == first + (k - 1) * MinutesPerDay
                IN [Date |-> d,
                    Scans |-> Cardinality({i \in 1..Len(ts) : DayFloor(ts[i][2]) = d})]]

\* resample on a non-empty index that holds no timestamp at all: pandas takes
\* the range edges from NaT; whether that raises depends on the pandas build.
ScanSummarizeMayRaise(frame) ==
  frame # <<>> /\ DropNa(Col(frame, "CreatedDateTimeUTC")) = <<>>

\* a / b of two Series: the values are paired by index label; a label that
\* only one side has, or a null on either side, gives NaN (den = 0).
SeriesDiv(left, right, label) ==
  IF /\ \E i \in 1..Len(left) : left[i].label = label
     /\ \E j \in 1..Len(right) : right[j].label = label
  THEN LET a == left[CHOOSE i \in 1..Len(left) : left[i].label = label].value
           b == right[CHOOSE j \in 1..Len(right) : right[j].label = label].value
       IN IF b = NA THEN Div(0, 0) ELSE Div(a, b[2])
  ELSE Div(0, 0)

\* .fillna(0) on a quotient
FillNa0(q) == IF q.num = 0 /\ q.den = 0 THEN [num |-> 0, den |-> 1] ELSE q

\* user_counts > 1
IsRepeatUser(cnt) == cnt > 1

ScanSummarize(frame, rank) ==
  LET total_scans == Len(frame)
      user_counts == GroupBySize(Col(frame, "AccountKey"))
      repeat_rows == SelectSeq(user_counts, LAMBDA u : IsRepeatUser(u.n))
      repeat_user_ids == Keys(repeat_rows)
      repeat_user_scans == SumNums([i \in 1..Len(repeat_rows) |-> Num(repeat_rows[i].n)])
      unique_users == Len(user_counts)
      repeat_users == Len(repeat_rows)
      vin_counts == ValueCounts(DropNa(Col(frame, "VIN")), rank)
      located == DropNaRows(frame, {"State"})
      state_counts == SortValuesDesc(GroupBySize(Col(located, "State")), rank)
      repeat_state_counts ==
        GroupBySize(Col(SelectSeq(located, LAMBDA r : r["AccountKey"] \in repeat_user_ids), "State"))
      \* drop_duplicates(subset=["State", "AccountKey"]): the distinct pairs
      user_state == {<<located[i]["State"], located[i]["AccountKey"]>> : i \in 1..Len(located)}
      repeat_users_by_state(st) ==
        Cardinality({p \in user_state : p[1] = st /\ p[2] \in repeat_user_ids})
      unique_users_by_state(st) == Cardinality({p \in user_state : p[1] = st})
      \* repeat_user_state["repeat_users"]: values by position (to_numpy), RangeIndex labels
      left == [i \in 1..Len(state_counts) |->
                 [label |-> Num(i - 1), value |-> repeat_users_by_state(state_counts[i].key)]]
      \* unique_users_by_state.reindex(state_counts.index).replace(0, pd.NA): State labels
      right == [i \in 1..Len(state_counts) |->
                  [label |-> state_counts[i].key,
                   value |-> IF unique_users_by_state(state_counts[i].key) = 0 THEN NA
                             ELSE Num(unique_users_by_state(state_counts[i].key))]]
  IN [total_scans |-> total_scans,
      repeat_user_ids |-> repeat_user_ids,
      repeat_user_scans |-> repeat_user_scans,
      repeat_user_scan_share |-> SafeRatio(repeat_user_scans, total_scans),
      unique_users |-> unique_users,
      repeat_users |-> repeat_users,
      repeat_user_share |-> SafeRatio(repeat_users, unique_users),
      unique_vins |-> Len(vin_counts),
      repeat_vins |-> Len(SelectSeq(vin_counts, LAMBDA v : v.n > 1)),
      state_summary |->
        [i \in 1..Len(state_counts) |->
           [key |-> state_counts[i].key,
            n |-> state_counts[i].n,
            repeat_scans |-> CountOf(repeat_state_counts, state_counts[i].key),
            repeat_scan_share |-> Div(CountOf(repeat_state_counts, state_counts[i].key),
                                      state_counts[i].n),
            scan_share |-> Div(state_counts[i].n, IF total_scans # 0 THEN total_scans ELSE 1)]],
      repeat_user_state |->
        [i \in 1..Len(state_counts) |->
           [key |-> state_counts[i].key,
            repeat_users |-> left[i].value,
            repeat_user_share_all_repeat |->
              Div(left[i].value, IF repeat_users # 0 THEN repeat_users ELSE 1),
            \* the quotient is assigned back by the frame's RangeIndex label
            repeat_user_share_in_state |-> FillNa0(SeriesDiv(left, right, Num(i - 1)))]],
      scans_by_day |-> Daily(frame)]

\* state_summary.nlargest(10, "total_scans"): keep="first", ties in frame order.
build_figures(state_summary) == MostCommon(state_summary, TopStatesLimit)

(***************************************************************************)
(* main: load_data, summarize, the rendering, the write of the output.     *)
(***************************************************************************)
Variants == {"rs2", "scan"}

\* What load_data can end in: an exception (no file, a column it reads is
\* absent), or the normalised frame.  On a file without records
\* df.apply(vehicle_label, axis=1) tries the function on a row of NaN, gets
\* None, and returns an empty Series, so that "Vehicle" is an empty column.
LoadOutcomes(v, file) ==
  IF ~file.exists \/ ~(LoadColumns(v) \subseteq file.columns)
  THEN {[raised |-> TRUE]}
  ELSE {[raised |-> FALSE, value |-> load_data(v, file.rows)]}

\* What summarize can end in: an exception, or its result under one of the
\* orders the sort may leave equal counts in.
SummarizeOutcomes(v, columns, frame) ==
  IF ~(SummarizeColumns(v) \subseteq (columns \cup DerivedColumns(v)))
  THEN {[raised |-> TRUE]}
  ELSE IF v = "rs2"
  THEN IF Rs2SummarizeRaises(frame) THEN {[raised |-> TRUE]}
       ELSE {[raised |-> FALSE, value |-> Rs2Summarize(frame, rank)] : rank \in TieRanks}
  ELSE {[raised |-> FALSE, value |-> ScanSummarize(frame, rank)] : rank \in TieRanks}
       \cup (IF ScanSummarizeMayRaise(frame) THEN {[raised |-> TRUE]} ELSE {})

\* rs2: render_html's cards, tables and chart data; scan: build_figures, then
\* render_html's page.
RenderPage(v, s) ==
  IF v = "scan" THEN [cards |-> s, top_states |-> build_figures(s.state_summary)]
  ELSE [cards |-> s, top_states |-> s.top_states]

\* A run that creates the output file before it reads the input.
LoadCreatingOutput ==
  /\ pc = "start"
  /\ outFile' = "new"
  /\ \E out \in LoadOutcomes(variant, csv) :
       IF out.raised
       THEN /\ pc' = "failed"
            /\ UNCHANGED <<df, trace>>
       ELSE /\ df' = out.value
            /\ pc' = "loaded"
            /\ trace' = Append(trace, "Load")
  /\ UNCHANGED <<variant, csv, summary, html>>

Load ==
  /\ pc = "start"
  /\ \E out \in LoadOutcomes(variant, csv) :
       IF out.raised
       THEN /\ pc' = "failed"
            /\ UNCHANGED <<df, trace>>
       ELSE /\ df' = out.value
            /\ pc' = "loaded"
            /\ trace' = Append(trace, "Load")
  /\ UNCHANGED <<variant, csv, summary, html, outFile>>

Summarize ==
  /\ pc = "loaded"
  /\ \E out \in SummarizeOutcomes(variant, csv.columns, df) :
       IF out.raised
       THEN /\ pc' = "failed"
            /\ UNCHANGED <<summary, trace>>
       ELSE /\ summary' = out.value
            /\ pc' = "summarized"
            /\ trace' = Append(trace, "Aggregate")
  /\ UNCHANGED <<variant, csv, df, html, outFile>>

Render ==
  /\ pc = "summarized"
  /\ html' = RenderPage(variant, summary)
  /\ pc' = "rendered"
  /\ trace' = Append(trace, "Render")
  /\ UNCHANGED <<variant, csv, df, summary, outFile>>

\* output_path.write_text(html)
Write ==
  /\ pc = "rendered"
  /\ outFile' = "new"
  /\ pc' = "done"
  /\ trace' = Append(trace, "Write")
  /\ UNCHANGED <<variant, csv, df, summary, html>>

Next == Load \/ Summarize \/ Render \/ Write

(***************************************************************************)
(* Inputs.                                                                 *)
(***************************************************************************)
\* The sequences over S of length at most n.
SeqsUpTo(S, n) == UNION {[1..k -> S] : k \in 0..n}

Start(v, file, out) ==
  /\ variant = v
  /\ csv = file
  /\ outFile = out
  /\ pc = "start"
  /\ df = <<>>
  /\ summary = <<>>
  /\ html = <<>>
  /\ trace = <<>>

GoodFile(rows) == [exists |-> TRUE, columns |-> AllColumns, rows |-> rows]

MaxRows == 3

\* Records of a few users, vehicles and states, with every timestamp present.
UserRow(a, v, s) ==
  [BlankRow EXCEPT !.AccountId = a, !.Email = <<"e">>, !.VIN = v, !.State = s,
                   !.CreatedDateTimeUTC = Num(0)]

UserRows(v) ==
  IF v = "scan"
  THEN {UserRow(a, <<"v">>, s) : a \in {NaN, <<"a">>, <<"b">>},
                                 s \in {NaN, <<"C", "A">>, <<"t", "x">>}}
  ELSE {UserRow(a, w, <<"C", "A">>) : a \in {NaN, <<"a">>, <<"b">>},
                                      w \in {NaN, <<"v">>, <<"w">>}}

Init == \E v \in Variants : \E rows \in SeqsUpTo(UserRows(v), MaxRows) :
          Start(v, GoodFile(rows), "absent")

Spec == Init /\ [][Next]_vars

\* Identifier cells: missing, blank, plain and padded.
KeyMaxRows == 2

KeyRows ==
  {[BlankRow EXCEPT !.AccountId = a, !.Email = e, !.CreatedDateTimeUTC = Num(0)] :
     a \in {NaN, <<" ">>, <<"a">>, <<" ", "a">>}, e \in {NaN, <<"e">>, <<"f", " ">>}}

InitKey == \E v \in Variants : \E rows \in SeqsUpTo(KeyRows, KeyMaxRows) :
             Start(v, GoodFile(rows), "absent")

SpecKey == InitKey /\ [][Next]_vars

\* Whole runs: the file may be absent or lack a column, the output may exist
\* already, and a row is well-formed or has one missing or malformed cell.
RunMaxRows == 2

Bad == <<"b", "a", "d">>

GoodRow ==
  [c \in AllColumns |->
     CASE c \in {"AccountId"} -> <<"a">>
       [] c = "Email" -> <<"e">>
       [] c = "VIN" -> <<"v">>
       [] c = "State" -> <<"C", "A">>
       [] c = "CreatedDateTimeUTC" -> Num(0)
       [] c = "Year" -> Num(2020)
       [] c \in {"Make", "Model"} -> <<"F">>
       [] c \in {"ABS Part Name", "SRS Part Name", "MIL Part Name"} -> <<"p">>
       [] c = "MIL DTC" -> <<"d">>
       [] OTHER -> Num(1)]

MalformableColumns ==
  {"CreatedDateTimeUTC", "Year", "Mileage", "TotalAbsCodes", "TotalSrsCodes",
   "MaintenancePartsCount", "PredictedPartsCount", "UsbProductId", "State"}

RunRows ==
  {GoodRow} \cup {[GoodRow EXCEPT ![c] = Bad] : c \in MalformableColumns}
    \cup {[GoodRow EXCEPT ![c] = NaN] : c \in {"CreatedDateTimeUTC", "PredictedPartsCount", "UsbProductId"}}

RunFiles ==
  {[exists |-> FALSE, columns |-> {}, rows |-> <<>>]}
    \cup {[exists |-> TRUE, columns |-> AllColumns \ missing, rows |-> rows] :
            missing \in {{}, {"State"}, {"MIL DTC"}}, rows \in SeqsUpTo(RunRows, RunMaxRows)}

InitRun == \E v \in Variants : \E file \in RunFiles : \E out \in {"absent", "old"} :
             Start(v, file, out)

SpecRun == InitRun /\ [][Next]_vars

\* Timestamps (minutes) at the start and the end of a few hours that lie up
\* to 40 hourly buckets apart, besides missing and unparseable ones.
HourlyMaxRows == 3

HourChoices == {0, 1, 23, 24, 39}

HourlyCells ==
  {NaN, Bad} \cup {Num(h * MinutesPerHour + m) : h \in HourChoices, m \in {0, MinutesPerHour - 1}}

HourlyRows == {[BlankRow EXCEPT !.CreatedDateTimeUTC = t] : t \in HourlyCells}

InitHourly == \E rows \in SeqsUpTo(HourlyRows, HourlyMaxRows) :
                Start("rs2", GoodFile(rows), "absent")

SpecHourly == InitHourly /\ [][Next]_vars

\* Records of category c: its state, tool, vehicle, part and code.
TopCats == 11

\* Category 1 has the last letter of the alphabet, category 2 the one before.
CatLetter(c) == UpperLetters[Len(UpperLetters) + 1 - c]

TopRow(c) ==
  [BlankRow EXCEPT !.AccountId = <<"a">>, !.CreatedDateTimeUTC = Num(0),
                   !.State = <<CatLetter(c), "A">>,
                   !.UsbProductId = Num(c),
                   !.Year = Num(2020), !.Make = <<"F">>, !.Model = <<CatLetter(c)>>,
                   !["ABS Part Name"] = <<CatLetter(c)>>,
                   !["SRS Part Name"] = <<" ", CatLetter(c), ";">>,
                   !["MIL DTC"] = <<CatLetter(c), " ">>,
                   !["MIL Part Name"] = <<CatLetter(c), ";", "p">>]

\* Every short input over three categories; and the inputs that hold each of
\* k categories once, in ascending or descending order, followed by a second
\* record of some of them.
FreeTopInputs == SeqsUpTo({TopRow(c) : c \in 1..3}, 3)

LadderInputs ==
  {[i \in 1..(k + Len(extra)) |->
      IF i <= k THEN TopRow(IF asc THEN i ELSE k + 1 - i) ELSE TopRow(extra[i - k])] :
     <<k, asc, extra>> \in
       {<<k, asc, extra>> \in (0..TopCats) \X BOOLEAN \X {<<>>, <<1>>, <<2, 4>>, <<5, 4, 5>>} :
          \A i \in 1..Len(extra) : extra[i] <= k}}

InitTop == \E v \in Variants : \E rows \in FreeTopInputs \cup LadderInputs :
             Start(v, GoodFile(rows), "absent")

SpecTop == InitTop /\ [][Next]_vars

\* Records of two states and three part names, the first record in the state
\* that is last in the alphabet.
TiesMaxRows == 3

TiesRows ==
  {[TopRow(c) EXCEPT !["ABS Part Name"] = <<CatLetter(d)>>,
                     !["SRS Part Name"] = <<" ", CatLetter(d), ";">>] : c \in 1..2, d \in 1..3}

InitTies == \E v \in Variants :
              \E rows \in {r \in SeqsUpTo(TiesRows, TiesMaxRows) :
                              r # <<>> => r[1]["State"] = TopRow(1)["State"]} :
                Start(v, GoodFile(rows), "absent")

SpecTies == InitTies /\ [][Next]_vars

\* Records of two users in a missing, an invalid or one of two valid states.
RollupMaxRows == 3

RollupRows ==
  {[BlankRow EXCEPT !.AccountId = a, !.VIN = <<"v">>, !.State = st, !.CreatedDateTimeUTC = Num(0)] :
     a \in {<<"a">>, <<"b">>}, st \in {NaN, <<"C", "A">>, <<"t", "x">>, <<"t", "x", "1">>}}

InitRollup == \E v \in Variants : \E rows \in SeqsUpTo(RollupRows, RollupMaxRows) :
                Start(v, GoodFile(rows), "absent")

SpecRollup == InitRollup /\ [][Next]_vars

\* One record whose ABS Part Name is any short text over names, blanks and
\* semicolons, or "A; B ;B", alone or followed by a second record.
PartsMaxLen == 4

PartsAlphabet == {"A", "B", " ", ";"}

PartsCells ==
  {NaN, <<"A", ";", " ", "B", " ", ";", "B">>}
    \cup UNION {[1..k -> PartsAlphabet] : k \in 1..PartsMaxLen}

PartsRow(cell) == [BlankRow EXCEPT !["ABS Part Name"] = cell, !.CreatedDateTimeUTC = Num(0)]

InitParts == \E cell \in PartsCells :
               \E more \in {<<>>, <<NaN>>, <<Num(3)>>, <<<<"B", ";", "A">>>>} :
                 Start("rs2", GoodFile(<<PartsRow(cell)>> \o [i \in 1..Len(more) |-> PartsRow(more[i])]),
                       "absent")

SpecParts == InitParts /\ [][Next]_vars

\* Records with a missing, plain or padded code (one of them " nan", which
\* read_csv keeps as a text) and a missing, empty, short or long part list.
DtcMaxRows == 2

DtcRows ==
  {[BlankRow EXCEPT !["MIL DTC"] = d, !["MIL Part Name"] = p, !.CreatedDateTimeUTC = Num(0)] :
     d \in {NaN, <<"d">>, <<" ", "d">>, <<" ", "n", "a", "n">>},
     p \in {NaN, <<";">>, <<"p">>, <<"q", ";", "p">>,
            <<"p", ";", "q", ";", "r", ";", "s", ";", "p">>}}

InitDtc == \E rows \in SeqsUpTo(DtcRows, DtcMaxRows) : Start("rs2", GoodFile(rows), "absent")

SpecDtc == InitDtc /\ [][Next]_vars

\* Records whose Year is missing or at either side of the limits 1980 and
\* 2026, and whose Mileage and code counts are missing, unparseable or numbers.
MeanMaxRows == 2

MeanRows ==
  {[BlankRow EXCEPT !.Year = y, !.Mileage = m, !.TotalAbsCodes = m, !.TotalSrsCodes = y,
                    !.CreatedDateTimeUTC = Num(0)] :
     y \in {NaN, Num(MinYear - 1), Num(MinYear), Num(ReferenceYear), Num(ReferenceYear + 1)},
     m \in {NaN, Bad, Num(5)}}

InitMean == \E rows \in SeqsUpTo(MeanRows, MeanMaxRows) : Start("rs2", GoodFile(rows), "absent")

SpecMean == InitMean /\ [][Next]_vars

\* Records of one user whose VIN is missing, plain or padded.
VinMaxRows == 3

VinRows ==
  {[BlankRow EXCEPT !.AccountId = <<"a">>, !.VIN = w, !.CreatedDateTimeUTC = Num(0)] :
     w \in {NaN, <<"v">>, <<"w">>, <<" ", "v">>}}

InitVin == \E v \in Variants : \E rows \in SeqsUpTo(VinRows, VinMaxRows) :
             Start(v, GoodFile(rows), "absent")

SpecVin == InitVin /\ [][Next]_vars

\* Records whose Year is missing, unparseable, before 1980 or recent, whose
\* Make is missing, blank, plain or padded, and whose Model is missing or plain.
LabelMaxRows == 2

LabelRows ==
  {[BlankRow EXCEPT !.Year = y, !.Make = mk, !.Model = md, !.CreatedDateTimeUTC = Num(0)] :
     y \in {NaN, Bad, Num(MinYear - 1), Num(2020)},
     mk \in {NaN, <<" ">>, <<"F">>, <<" ", "F", " ">>},
     md \in {NaN, <<"M">>}}

InitLabel == \E rows \in SeqsUpTo(LabelRows, LabelMaxRows) : Start("rs2", GoodFile(rows), "absent")

SpecLabel == InitLabel /\ [][Next]_vars

\* One record whose State is any short text over a few characters.
StateMaxLen == 4

StateAlphabet == {" ", "a", "c", "C", "1"}

StateCells ==
  {NaN, <<"c", "a", "l", "i", "f", "o", "r", "n", "i", "a">>}
    \cup UNION {[1..k -> StateAlphabet] : k \in 1..StateMaxLen}

InitState == \E v \in Variants : \E st \in StateCells :
               Start(v, GoodFile(<<[BlankRow EXCEPT !.State = st, !.CreatedDateTimeUTC = Num(0)]>>),
                     "absent")

SpecState == InitState /\ [][Next]_vars

(***************************************************************************)
(* Properties.                                                             *)
(***************************************************************************)
Summarized(v) == variant = v /\ pc \in {"summarized", "rendered", "done"}

\* A quotient that is a number in [0, 1] (den = 0 is inf or NaN).
InUnit(q) == q.den > 0 /\ 0 <= q.num /\ q.num <= q.den

IsZero(q) == q.den > 0 /\ q.num = 0

\* C1: every ratio-valued output of summarize is a number in [0, 1], in both
\* variants and for every input, and is 0 whenever its denominator is 0.
C1_RatiosInUnit ==
  /\ Summarized("rs2") =>
       /\ InUnit(summary.repeat_user_share)
       /\ summary.total_scanned_users = 0 => IsZero(summary.repeat_user_share)
  /\ Summarized("scan") =>
       /\ InUnit(summary.repeat_user_scan_share)
       /\ InUnit(summary.repeat_user_share)
       /\ summary.total_scans = 0 => IsZero(summary.repeat_user_scan_share)
       /\ summary.unique_users = 0 => IsZero(summary.repeat_user_share)
       /\ \A i \in 1..Len(summary.state_summary) :
            /\ InUnit(summary.state_summary[i].repeat_scan_share)
            /\ InUnit(summary.state_summary[i].scan_share)
       /\ \A i \in 1..Len(summary.repeat_user_state) :
            /\ InUnit(summary.repeat_user_state[i].repeat_user_share_all_repeat)
            /\ InUnit(summary.repeat_user_state[i].repeat_user_share_in_state)
            /\ summary.repeat_users = 0 =>
                 IsZero(summary.repeat_user_state[i].repeat_user_share_all_repeat)

\* scan: two states and no repeat user, so the per-state share of all repeat
\* users has a zero denominator, while the scan shares are proper fractions.
C1_Witness ==
  /\ Summarized("scan")
  /\ summary.repeat_users = 0
  /\ Len(summary.repeat_user_state) = 2
  /\ summary.state_summary[1].scan_share.num < summary.state_summary[1].scan_share.den

\* C2: Total scans is the number of records of the input, and no repeat
\* count exceeds its total.
C2_CountsBounded ==
  /\ Summarized("rs2") =>
       /\ summary.total_scans = Len(csv.rows)
       /\ summary.repeat_user_count <= summary.total_scanned_users
  /\ Summarized("scan") =>
       /\ summary.total_scans = Len(csv.rows)
       /\ summary.repeat_user_scans <= summary.total_scans
       /\ summary.repeat_users <= summary.unique_users
       /\ \A i \in 1..Len(summary.state_summary) :
            summary.state_summary[i].repeat_scans <= summary.state_summary[i].n

\* Some but not all scans come from repeat users, in a state with both kinds.
C2_Witness ==
  /\ Summarized("scan")
  /\ 0 < summary.repeat_user_scans
  /\ summary.repeat_user_scans < summary.total_scans
  /\ \E i \in 1..Len(summary.state_summary) :
       /\ 0 < summary.state_summary[i].repeat_scans
       /\ summary.state_summary[i].repeat_scans < summary.state_summary[i].n

Occurrences(frame, Same(_)) == Cardinality({i \in 1..Len(frame) : Same(frame[i])})

\* C4: the repeat set is the set of users with more than one record under
\* the grouping key: a (UserId, VIN) pair without nulls in rs2, the
\* AccountKey in scan, where repeat_user_scans counts those users' records.
C4_RepeatSet ==
  /\ Summarized("rs2") =>
       /\ \A i \in 1..Len(df) :
            (df[i]["UserId"] \in summary.repeat_accounts) <=>
              \E j \in 1..Len(df) :
                 /\ df[j]["UserId"] = df[i]["UserId"]
                 /\ ~IsNa(df[j]["UserId"]) /\ ~IsNa(df[j]["VIN"])
                 /\ Occurrences(df, LAMBDA r : r["UserId"] = df[j]["UserId"]
                                                /\ r["VIN"] = df[j]["VIN"]) >= 2
       /\ summary.repeat_accounts \subseteq {df[i]["UserId"] : i \in 1..Len(df)}
       /\ summary.repeat_user_count = Cardinality(summary.repeat_accounts)
  /\ Summarized("scan") =>
       /\ \A i \in 1..Len(df) :
            (df[i]["AccountKey"] \in summary.repeat_user_ids) <=>
              Occurrences(df, LAMBDA r : r["AccountKey"] = df[i]["AccountKey"]) > 1
       /\ summary.repeat_user_ids \subseteq {df[i]["AccountKey"] : i \in 1..Len(df)}
       /\ summary.repeat_users = Cardinality(summary.repeat_user_ids)
       /\ summary.repeat_user_scans =
            Occurrences(df, LAMBDA r : r["AccountKey"] \in summary.repeat_user_ids)

\* rs2: one user repeats on a VIN while another, with two records on
\* different VINs or on none, does not.
C4_Witness ==
  /\ Summarized("rs2")
  /\ summary.repeat_user_count = 1
  /\ summary.total_scanned_users = 2
  /\ Len(df) = 3

\* The raw cell holds a non-empty identifier.
Present(x) == IsText(x) /\ StrStrip(x) # <<>>

\* C3: the user key is the first non-empty candidate: in scan the trimmed
\* AccountId, else the Email; in rs2 the trimmed AccountId, else null.  A
\* missing identifier is never a key value that records share.
C3_UserKey ==
  /\ (variant = "scan" /\ pc = "loaded") =>
       /\ \A i \in 1..Len(df) :
            LET raw == csv.rows[i]
            IN /\ Present(raw["AccountId"]) => df[i]["AccountKey"] = StrStrip(raw["AccountId"])
               /\ (~Present(raw["AccountId"]) /\ Present(raw["Email"])) =>
                    df[i]["AccountKey"] = StrStrip(raw["Email"])
       /\ \A i, j \in 1..Len(df) :
            (i # j /\ df[i]["AccountKey"] = df[j]["AccountKey"]) =>
              (Present(csv.rows[i]["AccountId"]) \/ Present(csv.rows[i]["Email"]))
  /\ (variant = "rs2" /\ pc = "loaded") =>
       \A i \in 1..Len(df) :
          LET raw == csv.rows[i]
          IN IF Present(raw["AccountId"]) THEN df[i]["UserId"] = StrStrip(raw["AccountId"])
             ELSE IsNa(df[i]["UserId"])

\* C5: with every mandatory column present, load_data and summarize of the
\* rs2 report never raise, whatever the cells hold.
C5_CellErrorsNonFatal ==
  (variant = "rs2" /\ csv.exists /\ csv.columns = AllColumns) => pc # "failed"

Steps == <<"Load", "Aggregate", "Render", "Write">>

IsPrefix(s, t) == Len(s) <= Len(t) /\ s = SubSeq(t, 1, Len(s))

RequiredColumns(v) == LoadColumns(v) \cup (SummarizeColumns(v) \ DerivedColumns(v))

Structural == ~csv.exists \/ ~(RequiredColumns(variant) \subseteq csv.columns)

\* C6: the steps run once each in the order Load, Aggregate, Render, Write;
\* only the Write step, after the other three, changes the output file; a
\* run on a missing file or without a required column never gets past
\* summarize and leaves the output file as it was.
C6_LinearRun ==
  [][/\ IsPrefix(trace', Steps)
     /\ Len(trace') <= Len(trace) + 1
     /\ (outFile' # outFile) => (trace = SubSeq(Steps, 1, 3) /\ trace' = Steps)
     /\ (pc' = "done") <=> (trace' = Steps)
     /\ Structural => (outFile' = outFile /\ pc' \in {"start", "loaded", "failed"})]_vars

\* An existing output file, a column that only summarize reads is absent:
\* the run fails after Load and the old file is still there.
C6_Witness ==
  /\ pc = "failed"
  /\ trace = <<"Load">>
  /\ outFile = "old"
  /\ csv.exists /\ "MIL DTC" \notin csv.columns /\ variant = "rs2"

\* The hourly buckets (hours since the epoch) of the parseable timestamps.
Buckets == {csv.rows[i]["CreatedDateTimeUTC"][2] \div 60 :
              i \in {j \in 1..Len(csv.rows) : IsNum(csv.rows[j]["CreatedDateTimeUTC"])}}

\* C7: the rs2 hourly series holds the latest min(24, span) consecutive
\* hourly buckets, ending at the bucket of the latest timestamp, each with
\* the number of records of that hour (0 included).
C7_HourlyWindow ==
  Summarized("rs2") =>
    IF Buckets = {} THEN summary.hourly = <<>>
    ELSE LET lo == CHOOSE b \in Buckets : \A c \in Buckets : b <= c
             hi == CHOOSE b \in Buckets : \A c \in Buckets : b >= c
             n == Min(24, hi - lo + 1)
         IN /\ Len(summary.hourly) = n
            /\ \A k \in 1..n :
                 /\ summary.hourly[k].Hour = (hi - n + k) * 60
                 /\ summary.hourly[k].Scans =
                      Cardinality({i \in 1..Len(csv.rows) :
                                     /\ IsNum(csv.rows[i]["CreatedDateTimeUTC"])
                                     /\ csv.rows[i]["CreatedDateTimeUTC"][2] \div 60 = hi - n + k})

\* Timestamps spanning 40 hourly buckets: the series is the latest 24.
C7_Witness ==
  /\ Summarized("rs2")
  /\ 0 \in Buckets /\ 39 \in Buckets
  /\ Len(summary.hourly) = 24
  /\ summary.hourly[24].Scans = 2

\* tbl ranks the categories of keys: at most limit rows, one per category
\* with its count, in descending order of count, and no category left out
\* has a greater count than a listed one.
RankedTopN(tbl, limit, keys) ==
  LET cnt(k) == Cardinality({i \in 1..Len(keys) : keys[i] = k})
  IN /\ Len(tbl) = Min(limit, Cardinality(Range(keys)))
     /\ \A i \in 1..Len(tbl) : tbl[i].key \in Range(keys) /\ tbl[i].n = cnt(tbl[i].key)
     /\ \A i, j \in 1..Len(tbl) : i < j => (tbl[i].n >= tbl[j].n /\ tbl[i].key # tbl[j].key)
     /\ \A k \in Range(keys) \ Keys(tbl) : \A i \in 1..Len(tbl) : cnt(k) <= tbl[i].n

\* The trimmed non-empty tokens of a column, in record order.
Tokens(c) == Flatten([i \in 1..Len(df) |-> IF IsNa(df[i][c]) THEN <<>> ELSE PartNames(df[i][c])])

DtcKeys ==
  LET present == DropNa(Col(df, "MIL DTC"))
  IN [i \in 1..Len(present) |-> StrStrip(present[i])]

\* C8: every ranked top-N table has at most N rows, in descending order of
\* count, and holds the N categories of highest count.
C8_TopN ==
  /\ Summarized("rs2") =>
       /\ RankedTopN(summary.top_vehicles, 10, DropNa(Col(df, "Vehicle")))
       /\ RankedTopN(summary.top_usb, 5, DropNa(Col(df, "UsbProductId")))
       /\ RankedTopN(summary.top_states, 10, DropNa(Col(df, "State")))
       /\ RankedTopN(summary.abs_parts, 10, Tokens("ABS Part Name"))
       /\ RankedTopN(summary.srs_parts, 10, Tokens("SRS Part Name"))
       /\ RankedTopN(summary.mil_dtc, 10, DtcKeys)
  /\ (variant = "scan" /\ pc \in {"rendered", "done"}) =>
       RankedTopN(html.top_states, 10, DropNa(Col(df, "State")))

\* Eleven categories, one of them with two records: ten rows are listed and
\* the one left out has the least count.
C8_Witness ==
  /\ Summarized("rs2")
  /\ Cardinality(Range(Col(df, "State"))) = 11
  /\ Len(summary.top_states) = 10 /\ Len(summary.mil_dtc) = 10 /\ Len(summary.top_usb) = 5
  /\ summary.top_states[1].n = 2 /\ summary.top_states[2].n = 1

FirstIndex(keys, k) == CHOOSE i \in 1..Len(keys) : keys[i] = k /\ \A j \in 1..(i - 1) : keys[j] # k

\* Rows of equal count are in the order of their first occurrence in keys.
TiesFirstEncountered(tbl, keys) ==
  \A i, j \in 1..Len(tbl) :
     (i < j /\ tbl[i].n = tbl[j].n) => FirstIndex(keys, tbl[i].key) < FirstIndex(keys, tbl[j].key)

\* C9 (as claimed): in the per-state tables of both variants and in the
\* part-name tables, categories of equal count are in first-encountered order.
C9_TiesFirstEncounteredEverywhere ==
  /\ Summarized("rs2") =>
       /\ TiesFirstEncountered(summary.scans_by_state, DropNa(Col(df, "State")))
       /\ TiesFirstEncountered(summary.abs_parts, Tokens("ABS Part Name"))
       /\ TiesFirstEncountered(summary.srs_parts, Tokens("SRS Part Name"))
  /\ Summarized("scan") =>
       TiesFirstEncountered(summary.state_summary, DropNa(Col(df, "State")))

\* C9 (amended): in the part-name tables, built from the token counter,
\* categories of equal count are in first-encountered order.
C9_PartTiesFirstEncountered ==
  Summarized("rs2") =>
    /\ TiesFirstEncountered(summary.abs_parts, Tokens("ABS Part Name"))
    /\ TiesFirstEncountered(summary.srs_parts, Tokens("SRS Part Name"))

\* Two part names of equal count, the first-encountered one later in the
\* alphabet.
C9_Witness ==
  /\ Summarized("rs2")
  /\ Len(summary.abs_parts) >= 2
  /\ summary.abs_parts[1].n = summary.abs_parts[2].n
  /\ StrLess(summary.abs_parts[2].key, summary.abs_parts[1].key)

\* The raw cell is a text whose trimmed, upper-cased form is the two-letter code.
TwoLetterForm(raw, code) ==
  /\ IsText(raw)
  /\ \E p \in 0..Len(raw) :
       /\ Len(raw) >= p + 2
       /\ \A k \in 1..Len(raw) : (k <= p \/ k > p + 2) => raw[k] \in Whitespace
       /\ code = <<UpperChar(raw[p + 1]), UpperChar(raw[p + 2])>>

Codes == [1..2 -> Range(UpperLetters)]

\* C10: after load_data a record's State is the trimmed, upper-cased raw
\* value when that is two letters A-Z, and null otherwise, in both variants.
C10_StateNormalized ==
  pc \in {"loaded", "summarized", "rendered", "done"} =>
    \A i \in 1..Len(df) :
       LET raw == csv.rows[i]["State"]
       IN IF \E code \in Codes : TwoLetterForm(raw, code)
          THEN df[i]["State"] \in Codes /\ TwoLetterForm(raw, df[i]["State"])
          ELSE df[i]["State"] = NA

\* " ca " was loaded as "CA".
C10_Witness ==
  /\ pc = "loaded"
  /\ csv.rows[1]["State"] = <<" ", "c", "a", " ">>
  /\ df[1]["State"] = <<"C", "A">>

\* The states of the loaded records, nulls left out.
LoadedStates == Range(DropNa(Col(df, "State")))

TotalOf(tbl) == SumNums([i \in 1..Len(tbl) |-> Num(tbl[i].n)])

\* tbl has exactly one row for each state of the set, and no other row.
OneRowPerState(tbl, states) == Keys(tbl) = states /\ Len(tbl) = Cardinality(states)

\* The per-state scan counts leave out exactly the records without a State.
ScanCountsExcludeNull ==
  /\ Summarized("rs2") =>
       /\ OneRowPerState(summary.scans_by_state, LoadedStates)
       /\ TotalOf(summary.scans_by_state) = Len(DropNa(Col(df, "State")))
  /\ Summarized("scan") =>
       /\ OneRowPerState(summary.state_summary, LoadedStates)
       /\ OneRowPerState(summary.repeat_user_state, LoadedStates)
       /\ TotalOf(summary.state_summary) = Len(DropNa(Col(df, "State")))
       /\ \A i \in 1..Len(summary.state_summary) :
            /\ summary.state_summary[i].scan_share.num = summary.state_summary[i].n
            /\ summary.state_summary[i].scan_share.den = summary.total_scans

\* C11 (as claimed): every per-state rollup, the rs2 repeat-user one included,
\* has exactly one row per distinct non-null State, and the per-state scan
\* counts (and shares) add up to the records with a non-null State.
C11_OneRowPerStateEverywhere ==
  /\ ScanCountsExcludeNull
  /\ Summarized("rs2") => OneRowPerState(summary.repeat_users_by_state, LoadedStates)

\* C11 (amended): as claimed, except that the rs2 repeat-user rollup has one
\* row per distinct non-null State in which a repeat user has a record.
C11_NullStateExcluded ==
  /\ ScanCountsExcludeNull
  /\ Summarized("rs2") =>
       OneRowPerState(summary.repeat_users_by_state,
                      {df[i]["State"] : i \in {j \in 1..Len(df) :
                                                 /\ ~IsNa(df[j]["State"])
                                                 /\ df[j]["UserId"] \in summary.repeat_accounts}})

\* rs2: a repeat user with a record in one state and a record without a
\* State; the rollup has that one state, the scan counts two states.
C11_Witness ==
  /\ Summarized("rs2")
  /\ \E i \in 1..Len(df) : IsNa(df[i]["State"]) /\ df[i]["UserId"] \in summary.repeat_accounts
  /\ Len(summary.repeat_users_by_state) = 1
  /\ Len(summary.scans_by_state) = 1
  /\ Len(df) = 3 /\ TotalOf(summary.scans_by_state) = 2

\* The input file exists, has every column and holds no record.
ZeroRows == csv.exists /\ csv.columns = AllColumns /\ csv.rows = <<>>

\* C12: a file with a header and no records is processed without error in
\* both variants; every count is 0, every mean 0.0, every ratio 0, and every
\* ranked table, state rollup and time series is empty.
C12_ZeroRows ==
  ZeroRows =>
    /\ pc # "failed"
    /\ Summarized("rs2") =>
         /\ \A f \in {"total_scans", "total_scanned_users", "maintenance_parts_total",
                       "predicted_parts_total", "unique_vins", "repeat_user_count"} :
              summary[f] = 0
         /\ \A f \in {"avg_age", "avg_mileage", "avg_abs_codes", "avg_srs_codes",
                       "repeat_user_share"} : IsZero(summary[f])
         /\ \A f \in {"top_vehicles", "top_usb", "abs_parts", "srs_parts", "mil_dtc",
                       "scans_by_state", "top_states", "hourly", "repeat_users_by_state"} :
              summary[f] = <<>>
    /\ Summarized("scan") =>
         /\ \A f \in {"total_scans", "repeat_user_scans", "unique_users", "repeat_users",
                       "unique_vins", "repeat_vins"} : summary[f] = 0
         /\ \A f \in {"repeat_user_scan_share", "repeat_user_share"} : IsZero(summary[f])
         /\ \A f \in {"state_summary", "repeat_user_state", "scans_by_day"} : summary[f] = <<>>
    /\ (variant = "scan" /\ pc \in {"rendered", "done"}) => html.top_states = <<>>

\* rs2 has written its page for a file without records.
C12_Witness ==
  /\ ZeroRows
  /\ variant = "rs2"
  /\ pc = "done"
  /\ outFile = "new"
  /\ summary.total_scans = 0

\* The pieces of the text s between semicolons, as pairs <<first, last>> of
\* positions (last = first - 1 for an empty piece).
Pieces(s) ==
  {p \in (1..(Len(s) + 1)) \X (0..Len(s)) :
     /\ p[2] >= p[1] - 1
     /\ (p[1] = 1 \/ s[p[1] - 1] = ";")
     /\ (p[2] = Len(s) \/ s[p[2] + 1] = ";")
     /\ \A k \in p[1]..p[2] : s[k] # ";"}

\* The trimmed pieces of the non-null cells of column c of the input, each
\* with the record and the place it comes from.
TrimmedPieces(c) ==
  {<<i, p, StrStrip(SubSeq(AsTypeStr(csv.rows[i][c]), p[1], p[2]))>> :
     <<i, p>> \in {q \in (1..Len(csv.rows)) \X ((1..12) \X (0..12)) :
                    /\ ~IsNa(csv.rows[q[1]][c])
                    /\ q[2] \in Pieces(AsTypeStr(csv.rows[q[1]][c]))}}

\* C13: explode_parts counts, for each token, its occurrences among the
\* trimmed pieces of the non-null cells split on ";"; empty pieces are not
\* counted and null cells contribute nothing.
C13_ExplodeParts ==
  Summarized("rs2") =>
    LET pieces == TrimmedPieces("ABS Part Name")
        tokens == {x[3] : x \in pieces} \ {<<>>}
    IN /\ Keys(summary.abs_parts) = tokens
       /\ Len(summary.abs_parts) = Cardinality(tokens)
       /\ \A r \in 1..Len(summary.abs_parts) :
            summary.abs_parts[r].n =
              Cardinality({x \in pieces : x[3] = summary.abs_parts[r].key})

\* "A; B ;B" gives A once and B twice.
C13_Witness ==
  /\ Summarized("rs2")
  /\ Len(csv.rows) = 1
  /\ csv.rows[1]["ABS Part Name"] = <<"A", ";", " ", "B", " ", ";", "B">>
  /\ summary.abs_parts = <<[key |-> <<"B">>, n |-> 2], [key |-> <<"A">>, n |-> 1]>>

\* The part tokens of the records whose MIL DTC is present and trims to code.
DtcPartTokens(code) ==
  Flatten([i \in 1..Len(df) |->
             IF /\ ~IsNa(df[i]["MIL DTC"])
                /\ StrStrip(AsTypeStr(df[i]["MIL DTC"])) = code
                /\ ~IsNa(df[i]["MIL Part Name"])
             THEN PartNames(df[i]["MIL Part Name"])
             ELSE <<>>])

\* C14: in the MIL DTC table a row's Scans is the number of records whose
\* trimmed MIL DTC is the row's code, and its Top Parts are the at most 3
\* most frequent part tokens of exactly those records, with their counts,
\* in descending order (none, "n/a", exactly when they have no token).
C14_MilDtcTable ==
  Summarized("rs2") =>
    \A r \in 1..Len(summary.mil_dtc) :
       LET row == summary.mil_dtc[r]
       IN /\ row.n = Cardinality({i \in 1..Len(df) :
                                    /\ ~IsNa(df[i]["MIL DTC"])
                                    /\ StrStrip(AsTypeStr(df[i]["MIL DTC"])) = row.key})
          /\ RankedTopN(row.parts, 3, DtcPartTokens(row.key))

\* The numbers among the raw cells of a column, in record order.
RawNumbers(c) == SelectSeq(Col(csv.rows, c), IsNum)

\* The vehicle ages of the records whose Year is a number in 1980..2026.
RawAges ==
  LET years == SelectSeq(RawNumbers("Year"), LAMBDA y : 1980 <= y[2] /\ y[2] <= 2026)
  IN [i \in 1..Len(years) |-> Num(2026 - years[i][2])]

\* avg is the arithmetic mean of the numbers vals, and 0 when there is none.
IsMeanOf(avg, vals) ==
  IF vals = <<>> THEN IsZero(avg)
  ELSE avg.den > 0 /\ avg.num * Len(vals) = SumNums(vals) * avg.den

\* C15: each mean card of rs2 is the arithmetic mean of the non-null values
\* of its column, exactly 0 when the column has none, and never NaN.
C15_MeanCards ==
  Summarized("rs2") =>
    /\ IsMeanOf(summary.avg_age, RawAges)
    /\ IsMeanOf(summary.avg_mileage, RawNumbers("Mileage"))
    /\ IsMeanOf(summary.avg_abs_codes, RawNumbers("TotalAbsCodes"))
    /\ IsMeanOf(summary.avg_srs_codes, RawNumbers("TotalSrsCodes"))

\* Two records: no Year in range (mean age 0), one unparseable Mileage and
\* one of 5 (mean mileage 5).
C15_Witness ==
  /\ Summarized("rs2")
  /\ Len(df) = 2
  /\ RawAges = <<>> /\ RawNumbers("Year") # <<>>
  /\ Len(RawNumbers("Mileage")) = 1
  /\ IsZero(summary.avg_age)
  /\ summary.avg_mileage = [num |-> 5, den |-> 1]

\* The VIN cells of the input that hold a value.
PresentVins == SelectSeq(Col(csv.rows, "VIN"), LAMBDA x : ~IsNa(x))

\* C16: Unique VINs is the number of distinct VIN values present in the
\* input (trimmed ones in scan); a record without a VIN adds nothing to it
\* nor, in scan, to the VINs scanned multiple times.
C16_UniqueVins ==
  /\ Summarized("rs2") => summary.unique_vins = Cardinality(Range(PresentVins))
  /\ Summarized("scan") =>
       LET vins == [i \in 1..Len(PresentVins) |-> StrStrip(PresentVins[i])]
       IN /\ summary.unique_vins = Cardinality(Range(vins))
          /\ summary.repeat_vins =
               Cardinality({w \in Range(vins) :
                              Cardinality({i \in 1..Len(vins) : vins[i] = w}) > 1})

\* The raw record has a numeric Year and a Make and Model that are present
\* and not blank.
LabelFields(raw) ==
  /\ IsNum(raw["Year"])
  /\ ~IsNa(raw["Make"]) /\ StrStrip(AsTypeStr(raw["Make"])) # <<>>
  /\ ~IsNa(raw["Model"]) /\ StrStrip(AsTypeStr(raw["Model"])) # <<>>

LabelText(raw) ==
  <<ToString(raw["Year"][2]), " ">> \o StrStrip(AsTypeStr(raw["Make"])) \o <<" ">>
    \o StrStrip(AsTypeStr(raw["Model"]))

YearInRange(raw) == IsNum(raw["Year"]) /\ 1980 <= raw["Year"][2] /\ raw["Year"][2] <= 2026

\* The top-vehicles table counts exactly the non-null labels.
TopVehiclesCountLabels ==
  Summarized("rs2") =>
    LET labels == DropNa(Col(df, "Vehicle"))
    IN /\ Keys(summary.top_vehicles) = Range(labels)
       /\ \A r \in 1..Len(summary.top_vehicles) :
            summary.top_vehicles[r].n =
              Cardinality({i \in 1..Len(labels) : labels[i] = summary.top_vehicles[r].key})

\* C17 (as claimed): a record has the label "<year> <make> <model>" exactly
\* when Year, Make and Model are present and well-formed, a Year outside
\* 1980..2026 not being well-formed, and no label otherwise; records without
\* a label are not in the top-vehicles table.
C17_VehicleLabelYearInRange ==
  /\ (variant = "rs2" /\ pc \in {"loaded", "summarized", "rendered", "done"}) =>
       \A i \in 1..Len(df) :
          IF LabelFields(csv.rows[i]) /\ YearInRange(csv.rows[i])
          THEN df[i]["Vehicle"] = LabelText(csv.rows[i])
          ELSE IsNa(df[i]["Vehicle"])
  /\ TopVehiclesCountLabels

\* C17 (amended): a record has the label exactly when its Year is a number
\* and its Make and Model are present and not blank, whatever the Year's
\* value; records without a label are not in the top-vehicles table.
C17_VehicleLabel ==
  /\ (variant = "rs2" /\ pc \in {"loaded", "summarized", "rendered", "done"}) =>
       \A i \in 1..Len(df) :
          IF LabelFields(csv.rows[i])
          THEN df[i]["Vehicle"] = LabelText(csv.rows[i])
          ELSE IsNa(df[i]["Vehicle"])
  /\ TopVehiclesCountLabels

\* A record of 1979 has no age and the label "1979 F M", which is the one
\* row of the top-vehicles table; the other record, with a blank Make, has
\* no label.
C17_Witness ==
  /\ Summarized("rs2")
  /\ Len(df) = 2
  /\ df[1]["VehicleAge"] = NA
  /\ df[1]["Vehicle"] = <<"1979", " ", "F", " ", "M">>
  /\ csv.rows[2]["Make"] = <<" ">> /\ IsNa(df[2]["Vehicle"])
  /\ summary.top_vehicles = <<[key |-> <<"1979", " ", "F", " ", "M">>, n |-> 1]>>

\* C18: normalising an already normalised State, a two-letter code or null,
\* leaves it unchanged.
C18_StateIdempotent ==
  pc \in {"loaded", "summarized", "rendered", "done"} =>
    \A i \in 1..Len(df) :
       /\ df[i]["State"] \in Codes \cup {NA}
       /\ NormalizeState(df[i]["State"]) = df[i]["State"]

\* "california" was loaded as null, and null normalises to null again.
C18_Witness ==
  /\ pc = "loaded"
  /\ csv.rows[1]["State"] = <<"c", "a", "l", "i", "f", "o", "r", "n", "i", "a">>
  /\ df[1]["State"] = NA
  /\ NormalizeState(NA) = NA

\* The users (AccountKey) with a record in state st.
UsersIn(st) == {df[i]["AccountKey"] : i \in {j \in 1..Len(df) : df[j]["State"] = st}}

\* In every row of the scan repeat-user rollup, repeat_users is the number
\* of repeat users with a record in the state.
RepeatUsersPerState ==
  Summarized("scan") =>
    \A r \in 1..Len(summary.repeat_user_state) :
       summary.repeat_user_state[r].repeat_users =
         Cardinality(UsersIn(summary.repeat_user_state[r].key) \cap summary.repeat_user_ids)

\* C19: in every row of the scan repeat-user rollup, repeat_users is the
\* number of repeat users with a record in the state, and
\* repeat_user_share_in_state is that number divided by the number of users
\* with a record in the state.
C19_RepeatUserShareInState ==
  /\ RepeatUsersPerState
  /\ Summarized("scan") =>
       \A r \in 1..Len(summary.repeat_user_state) :
          LET row == summary.repeat_user_state[r]
          IN /\ row.repeat_user_share_in_state.den > 0
             /\ row.repeat_user_share_in_state.num * Cardinality(UsersIn(row.key)) =
                  row.repeat_users * row.repeat_user_share_in_state.den

====
